---- MODULE Spec2Model ----
(***************************************************************************)
(* The dead man's switch program of src/lib.rs as a state machine.         *)
(*                                                                         *)
(* State: the switch accounts (one per program-derived address, keyed by   *)
(* (owner, id)), the cluster clock, and a record of the last instruction   *)
(* that was processed (who called, on which account, the account before    *)
(* the call, the error or Ok, the value returned and the event emitted).   *)
(*                                                                         *)
(* Every instruction is one action: account validation (the #[derive(      *)
(* Accounts)] struct), then the handler, then the runtime's commit: the    *)
(* account is written back only when the handler returns Ok, and closed    *)
(* when the struct says close = owner.                                     *)
(*                                                                         *)
(* Timestamps are i64 in the program.  TLC evaluates integers in 32 bits,  *)
(* so the timestamp type is modelled with I64_MAX = 2^31 - 1: checked_add  *)
(* only compares against the largest representable value, and every        *)
(* program constant (the interval limits, the data size) fits unchanged.   *)
(***************************************************************************)
EXTENDS Integers, Sequences, FiniteSets, TLC

VARIABLES accounts, now, result

vars == <<accounts, now, result>>

(***************************************************************************)
(* Program constants                                                       *)
(***************************************************************************)
MAX_PING_INTERVAL == 365 * 24 * 60 * 60

MIN_PING_INTERVAL == 60

MAX_DATA_SIZE == 512

I64_MAX == 2147483647

I64_MIN == (-I64_MAX) - 1

(***************************************************************************)
(* Bounds of the model                                                     *)
(***************************************************************************)
\* how many switch accounts may be live at once
MaxLive == 1

Principals == {"alice", "bob"}

\* ids offered to create_switch; 0 is the invalid id
Ids == {0, 1}

\* a switch account's address: the PDA of (owner, id)
Keys == Principals \X (Ids \ {0})

\* clock readings: at and around the 60 s deadline of a switch created at 0,
\* and at the end of the timestamp range
Times == {0, 60, 61, I64_MAX - 60, I64_MAX - 59}

(***************************************************************************)
(* Byte strings.  A byte string is kept run-length encoded, as a sequence  *)
(* of runs <<byte, count>> with count > 0, so that the 512-byte buffer of  *)
(* an account and a 513-byte argument are values of a few elements.        *)
(***************************************************************************)
RECURSIVE ByteLen(_)
ByteLen(bytes) ==
    IF bytes = << >> THEN 0 ELSE bytes[1][2] + ByteLen(Tail(bytes))

\* the first n bytes of a byte string
RECURSIVE Take(_, _)
Take(bytes, n) ==
    IF n <= 0 \/ bytes = << >> THEN << >>
    ELSE IF bytes[1][2] <= n
         THEN <<bytes[1]>> \o Take(Tail(bytes), n - bytes[1][2])
         ELSE << <<bytes[1][1], n>> >>

\* n bytes of value b
Repeat(b, n) == IF n <= 0 THEN << >> ELSE << <<b, n>> >>

\* encrypted_data arguments of length 0, 1, MAX_DATA_SIZE and MAX_DATA_SIZE + 1
Data0 == << >>

Data1 == Repeat(7, 1)

DataMax == Repeat(9, 1) \o Repeat(1, MAX_DATA_SIZE - 1)

DataOver == Repeat(3, MAX_DATA_SIZE + 1)

\* create_switch arguments <<id, ping_interval, encrypted_data>>: the valid ones
\* at both limits of each argument, every single fault, and double faults that
\* show which check comes first
CreateArgs ==
    { <<1, MIN_PING_INTERVAL, Data1>>, <<1, MIN_PING_INTERVAL, DataMax>>,
      <<1, MAX_PING_INTERVAL, Data1>>,
      <<0, MIN_PING_INTERVAL, Data1>>, <<0, MIN_PING_INTERVAL - 1, Data0>>,
      <<1, MIN_PING_INTERVAL - 1, Data1>>, <<1, MAX_PING_INTERVAL + 1, Data1>>,
      <<1, MIN_PING_INTERVAL, Data0>>, <<1, MIN_PING_INTERVAL, DataOver>>,
      <<1, MIN_PING_INTERVAL - 1, DataOver>> }

(***************************************************************************)
(* Option values: <<>> is None, <<v>> is Some(v)                           *)
(***************************************************************************)
None == <<>>

Some(v) == <<v>>

IsSome(o) == Len(o) = 1

Unwrap(o) == o[1]

\* i64::checked_add
checked_add(a, b) ==
    IF (b > 0 /\ a > I64_MAX - b) \/ (b < 0 /\ a < I64_MIN - b)
    THEN None
    ELSE Some(a + b)

\* is_expired with the deadline second already counted as expired
is_expired_inclusive(switch, current_time) ==
    IF ~switch.active
    THEN FALSE
    ELSE LET expiration == checked_add(switch.last_ping, switch.ping_interval)
         IN  IF IsSome(expiration)
             THEN current_time >= Unwrap(expiration)
             ELSE FALSE

\* is_expired without the active check
is_expired_ignores_active(switch, current_time) ==
    LET expiration == checked_add(switch.last_ping, switch.ping_interval)
    IN  IF IsSome(expiration)
        THEN current_time > Unwrap(expiration)
        ELSE FALSE

\* is_expired that treats an unrepresentable deadline as passed
is_expired_fail_open(switch, current_time) ==
    IF ~switch.active
    THEN FALSE
    ELSE LET expiration == checked_add(switch.last_ping, switch.ping_interval)
         IN  IF IsSome(expiration)
             THEN current_time > Unwrap(expiration)
             ELSE TRUE

(***************************************************************************)
(* is_expired: the expiration predicate                                    *)
(***************************************************************************)
is_expired(switch, current_time) ==
    IF ~switch.active
    THEN FALSE
    ELSE LET expiration == checked_add(switch.last_ping, switch.ping_interval)
         IN  IF IsSome(expiration)
             THEN current_time > Unwrap(expiration)
             ELSE FALSE

(***************************************************************************)
(* What a handler hands back: the error (or "Ok"), the account as the      *)
(* handler left it in memory, the value returned and the event emitted.    *)
(***************************************************************************)
Outcome(err, switch, ret, event) ==
    [err |-> err, switch |-> switch, ret |-> ret, event |-> event]

Err(code, switch) == Outcome(code, switch, None, None)

(***************************************************************************)
(* The account a create_switch handler starts from: `init` allocates it    *)
(* zeroed.                                                                 *)
(***************************************************************************)
NoPrincipal == "default"

ZeroSwitch ==
    [owner |-> NoPrincipal, last_ping |-> 0, ping_interval |-> 0,
     encrypted_data |-> Repeat(0, MAX_DATA_SIZE), data_length |-> 0,
     created_at |-> 0, active |-> FALSE]

\* [0u8; MAX_DATA_SIZE] with data copied over its first data.len() bytes
copy_from_slice(data) ==
    data \o Repeat(0, MAX_DATA_SIZE - ByteLen(data))

\* DeadManSwitch::get_encrypted_data
get_encrypted_data(switch) ==
    Take(switch.encrypted_data, switch.data_length)

(***************************************************************************)
(* Handlers.  Each takes the account as loaded and the clock reading and   *)
(* returns an Outcome; a handler that fails after writing a field returns  *)
(* the account as written (the runtime decides what is kept).              *)
(***************************************************************************)
\* create_switch with the upper interval limit excluded
create_switch_exclusive_max(switch, key, owner, id, ping_interval, encrypted_data, current_time) ==
    IF ~(id > 0) THEN Err("InvalidSwitchId", switch)
    ELSE IF ~(ping_interval >= MIN_PING_INTERVAL /\ ping_interval < MAX_PING_INTERVAL)
    THEN Err("InvalidInterval", switch)
    ELSE IF ~(ByteLen(encrypted_data) <= MAX_DATA_SIZE) THEN Err("DataTooLarge", switch)
    ELSE IF ByteLen(encrypted_data) = 0 THEN Err("EmptyData", switch)
    ELSE LET written == [owner |-> owner,
                         last_ping |-> current_time,
                         ping_interval |-> ping_interval,
                         encrypted_data |-> copy_from_slice(encrypted_data),
                         data_length |-> ByteLen(encrypted_data),
                         created_at |-> current_time,
                         active |-> TRUE]
             expiration_time == checked_add(current_time, ping_interval)
         IN  IF ~IsSome(expiration_time) THEN Err("TimeOverflow", written)
             ELSE Outcome("Ok", written, None,
                          Some([name |-> "SwitchCreated", switch |-> key,
                                owner |-> owner, switch_id |-> id,
                                ping_interval |-> ping_interval,
                                expiration_time |-> Unwrap(expiration_time),
                                timestamp |-> current_time]))

\* create_switch without the check that the data is not empty
create_switch_accepts_empty(switch, key, owner, id, ping_interval, encrypted_data, current_time) ==
    IF ~(id > 0) THEN Err("InvalidSwitchId", switch)
    ELSE IF ~(ping_interval >= MIN_PING_INTERVAL /\ ping_interval <= MAX_PING_INTERVAL)
    THEN Err("InvalidInterval", switch)
    ELSE IF ~(ByteLen(encrypted_data) <= MAX_DATA_SIZE) THEN Err("DataTooLarge", switch)
    ELSE LET written == [owner |-> owner,
                         last_ping |-> current_time,
                         ping_interval |-> ping_interval,
                         encrypted_data |-> copy_from_slice(encrypted_data),
                         data_length |-> ByteLen(encrypted_data),
                         created_at |-> current_time,
                         active |-> TRUE]
             expiration_time == checked_add(current_time, ping_interval)
         IN  IF ~IsSome(expiration_time) THEN Err("TimeOverflow", written)
             ELSE Outcome("Ok", written, None,
                          Some([name |-> "SwitchCreated", switch |-> key,
                                owner |-> owner, switch_id |-> id,
                                ping_interval |-> ping_interval,
                                expiration_time |-> Unwrap(expiration_time),
                                timestamp |-> current_time]))

create_switch(switch, key, owner, id, ping_interval, encrypted_data, current_time) ==
    IF ~(id > 0) THEN Err("InvalidSwitchId", switch)
    ELSE IF ~(ping_interval >= MIN_PING_INTERVAL /\ ping_interval <= MAX_PING_INTERVAL)
    THEN Err("InvalidInterval", switch)
    ELSE IF ~(ByteLen(encrypted_data) <= MAX_DATA_SIZE) THEN Err("DataTooLarge", switch)
    ELSE IF ByteLen(encrypted_data) = 0 THEN Err("EmptyData", switch)
    ELSE LET written == [owner |-> owner,
                         last_ping |-> current_time,
                         ping_interval |-> ping_interval,
                         encrypted_data |-> copy_from_slice(encrypted_data),
                         data_length |-> ByteLen(encrypted_data),
                         created_at |-> current_time,
                         active |-> TRUE]
             expiration_time == checked_add(current_time, ping_interval)
         IN  IF ~IsSome(expiration_time) THEN Err("TimeOverflow", written)
             ELSE Outcome("Ok", written, None,
                          Some([name |-> "SwitchCreated", switch |-> key,
                                owner |-> owner, switch_id |-> id,
                                ping_interval |-> ping_interval,
                                expiration_time |-> Unwrap(expiration_time),
                                timestamp |-> current_time]))

\* ping that emits its event without storing the new timestamp
ping_keeps_last_ping(switch, key, current_time) ==
    IF ~switch.active THEN Err("InactiveSwitch", switch)
    ELSE IF ~(current_time > switch.last_ping) THEN Err("InvalidTimestamp", switch)
    ELSE LET new_expiration == checked_add(current_time, switch.ping_interval)
         IN  IF ~IsSome(new_expiration) THEN Err("TimeOverflow", switch)
             ELSE Outcome("Ok", switch, None,
                          Some([name |-> "SwitchPinged", owner |-> switch.owner,
                                switch_key |-> key,
                                next_required_ping |-> Unwrap(new_expiration),
                                timestamp |-> current_time]))

\* ping that accepts a timestamp equal to the stored one
ping_accepts_same_time(switch, key, current_time) ==
    IF ~switch.active THEN Err("InactiveSwitch", switch)
    ELSE IF ~(current_time >= switch.last_ping) THEN Err("InvalidTimestamp", switch)
    ELSE LET written == [switch EXCEPT !.last_ping = current_time]
             new_expiration == checked_add(current_time, written.ping_interval)
         IN  IF ~IsSome(new_expiration) THEN Err("TimeOverflow", written)
             ELSE Outcome("Ok", written, None,
                          Some([name |-> "SwitchPinged", owner |-> written.owner,
                                switch_key |-> key,
                                next_required_ping |-> Unwrap(new_expiration),
                                timestamp |-> current_time]))

\* ping that refuses a switch whose deadline has passed
ping_rejects_expired(switch, key, current_time) ==
    IF ~switch.active THEN Err("InactiveSwitch", switch)
    ELSE IF is_expired(switch, current_time) THEN Err("Expired", switch)
    ELSE IF ~(current_time > switch.last_ping) THEN Err("InvalidTimestamp", switch)
    ELSE LET written == [switch EXCEPT !.last_ping = current_time]
             new_expiration == checked_add(current_time, written.ping_interval)
         IN  IF ~IsSome(new_expiration) THEN Err("TimeOverflow", written)
             ELSE Outcome("Ok", written, None,
                          Some([name |-> "SwitchPinged", owner |-> written.owner,
                                switch_key |-> key,
                                next_required_ping |-> Unwrap(new_expiration),
                                timestamp |-> current_time]))

\* ping without the check that the switch is active
ping_ignores_active(switch, key, current_time) ==
    IF ~(current_time > switch.last_ping) THEN Err("InvalidTimestamp", switch)
    ELSE LET written == [switch EXCEPT !.last_ping = current_time]
             new_expiration == checked_add(current_time, written.ping_interval)
         IN  IF ~IsSome(new_expiration) THEN Err("TimeOverflow", written)
             ELSE Outcome("Ok", written, None,
                          Some([name |-> "SwitchPinged", owner |-> written.owner,
                                switch_key |-> key,
                                next_required_ping |-> Unwrap(new_expiration),
                                timestamp |-> current_time]))

\* ping that saturates the new deadline instead of failing
ping_saturating_deadline(switch, key, current_time) ==
    IF ~switch.active THEN Err("InactiveSwitch", switch)
    ELSE IF ~(current_time > switch.last_ping) THEN Err("InvalidTimestamp", switch)
    ELSE LET written == [switch EXCEPT !.last_ping = current_time]
             sum == checked_add(current_time, written.ping_interval)
             new_expiration == IF IsSome(sum) THEN Unwrap(sum) ELSE I64_MAX
         IN  Outcome("Ok", written, None,
                     Some([name |-> "SwitchPinged", owner |-> written.owner,
                           switch_key |-> key,
                           next_required_ping |-> new_expiration,
                           timestamp |-> current_time]))

\* ping that also stamps created_at
ping_stamps_created_at(switch, key, current_time) ==
    IF ~switch.active THEN Err("InactiveSwitch", switch)
    ELSE IF ~(current_time > switch.last_ping) THEN Err("InvalidTimestamp", switch)
    ELSE LET written == [switch EXCEPT !.last_ping = current_time,
                                       !.created_at = current_time]
             new_expiration == checked_add(current_time, written.ping_interval)
         IN  IF ~IsSome(new_expiration) THEN Err("TimeOverflow", written)
             ELSE Outcome("Ok", written, None,
                          Some([name |-> "SwitchPinged", owner |-> written.owner,
                                switch_key |-> key,
                                next_required_ping |-> Unwrap(new_expiration),
                                timestamp |-> current_time]))

ping(switch, key, current_time) ==
    IF ~switch.active THEN Err("InactiveSwitch", switch)
    ELSE IF ~(current_time > switch.last_ping) THEN Err("InvalidTimestamp", switch)
    ELSE LET written == [switch EXCEPT !.last_ping = current_time]
             new_expiration == checked_add(current_time, written.ping_interval)
         IN  IF ~IsSome(new_expiration) THEN Err("TimeOverflow", written)
             ELSE Outcome("Ok", written, None,
                          Some([name |-> "SwitchPinged", owner |-> written.owner,
                                switch_key |-> key,
                                next_required_ping |-> Unwrap(new_expiration),
                                timestamp |-> current_time]))

check_expiration(switch, current_time) ==
    Outcome("Ok", switch, Some(is_expired(switch, current_time)), None)

\* get_switch_info that fails where the deadline is unrepresentable
get_switch_info_checked(switch, current_time) ==
    LET expired == is_expired(switch, current_time)
        sum == checked_add(switch.last_ping, switch.ping_interval)
    IN  IF ~IsSome(sum) THEN Err("TimeOverflow", switch)
        ELSE Outcome("Ok", switch,
                     Some([owner |-> switch.owner, expired |-> expired,
                           last_ping |-> switch.last_ping,
                           ping_interval |-> switch.ping_interval,
                           created_at |-> switch.created_at,
                           expiration_time |-> Unwrap(sum),
                           current_time |-> current_time]),
                     None)

get_switch_info(switch, current_time) ==
    LET expired == is_expired(switch, current_time)
        sum == checked_add(switch.last_ping, switch.ping_interval)
        expiration_time == IF IsSome(sum) THEN Unwrap(sum) ELSE I64_MAX
    IN  Outcome("Ok", switch,
                Some([owner |-> switch.owner, expired |-> expired,
                      last_ping |-> switch.last_ping,
                      ping_interval |-> switch.ping_interval,
                      created_at |-> switch.created_at,
                      expiration_time |-> expiration_time,
                      current_time |-> current_time]),
                None)

\* deactivate_switch that toggles the flag instead of clearing it
deactivate_switch_toggles(switch, key, current_time) ==
    LET written == [switch EXCEPT !.active = ~switch.active]
    IN  Outcome("Ok", written, None,
                Some([name |-> "SwitchDeactivated", switch |-> key,
                      timestamp |-> current_time]))

\* deactivate_switch that refuses a switch whose deadline has passed
deactivate_switch_rejects_expired(switch, key, current_time) ==
    IF ~switch.active THEN Err("AlreadyInactive", switch)
    ELSE IF is_expired(switch, current_time) THEN Err("NotExpired", switch)
    ELSE LET written == [switch EXCEPT !.active = FALSE]
         IN  Outcome("Ok", written, None,
                     Some([name |-> "SwitchDeactivated", switch |-> key,
                           timestamp |-> current_time]))

deactivate_switch(switch, key, current_time) ==
    IF ~switch.active THEN Err("AlreadyInactive", switch)
    ELSE LET written == [switch EXCEPT !.active = FALSE]
         IN  Outcome("Ok", written, None,
                     Some([name |-> "SwitchDeactivated", switch |-> key,
                           timestamp |-> current_time]))

\* close_switch without the check that the switch is inactive
close_switch_unchecked_active(switch, key, owner, current_time) ==
    IF ~is_expired(switch, current_time) THEN Err("NotExpired", switch)
    ELSE Outcome("Ok", switch, None,
                 Some([name |-> "SwitchClosed", switch |-> key, owner |-> owner,
                       timestamp |-> current_time]))

\* close_switch with its two checks in the other order
close_switch_expiry_first(switch, key, owner, current_time) ==
    IF ~is_expired(switch, current_time) THEN Err("NotExpired", switch)
    ELSE IF ~(~switch.active) THEN Err("ActiveSwitch", switch)
    ELSE Outcome("Ok", switch, None,
                 Some([name |-> "SwitchClosed", switch |-> key, owner |-> owner,
                       timestamp |-> current_time]))

close_switch(switch, key, owner, current_time) ==
    IF ~(~switch.active) THEN Err("ActiveSwitch", switch)
    ELSE IF ~is_expired(switch, current_time) THEN Err("NotExpired", switch)
    ELSE Outcome("Ok", switch, None,
                 Some([name |-> "SwitchClosed", switch |-> key, owner |-> owner,
                       timestamp |-> current_time]))

(***************************************************************************)
(* Account validation: the #[derive(Accounts)] structs.  `account` is the  *)
(* option of the account stored at the address, `signer` the principal     *)
(* who signed and passes its own key as `owner`.  The result is "Ok" or    *)
(* the framework's error.                                                  *)
(***************************************************************************)
\* the create_switch account check without `init` refusing a used address
CreateSwitch_reinitializes(account, signer) == "Ok"

CreateSwitch(account, signer) ==
    IF IsSome(account) THEN "AccountInUse" ELSE "Ok"

\* the account check without has_one = owner
has_one_owner_missing(account, signer) ==
    IF ~IsSome(account) THEN "AccountNotInitialized" ELSE "Ok"

has_one_owner(account, signer) ==
    IF ~IsSome(account) THEN "AccountNotInitialized"
    ELSE IF Unwrap(account).owner # signer THEN "ConstraintHasOne"
    ELSE "Ok"

Ping(account, signer) == has_one_owner(account, signer)

DeactivateSwitch(account, signer) == has_one_owner(account, signer)

CloseSwitch(account, signer) == has_one_owner(account, signer)

CheckExpiration(account, signer) ==
    IF ~IsSome(account) THEN "AccountNotInitialized" ELSE "Ok"

GetSwitchInfo(account, signer) ==
    IF ~IsSome(account) THEN "AccountNotInitialized" ELSE "Ok"

(***************************************************************************)
(* The runtime around a handler                                            *)
(***************************************************************************)
\* the account stored at an address
load(key) == IF key \in DOMAIN accounts THEN Some(accounts[key]) ELSE None

\* commit that writes the account back whatever the handler returned
commit_without_rollback(key, out, mutable, close) ==
    IF ~mutable \/ out.switch = ZeroSwitch THEN accounts
    ELSE IF close /\ out.err = "Ok"
    THEN [k \in DOMAIN accounts \ {key} |-> accounts[k]]
    ELSE [k \in DOMAIN accounts \cup {key} |->
             IF k = key THEN out.switch ELSE accounts[k]]

\* the accounts after an instruction: nothing is kept of a failed one; a
\* successful one writes a `mut` account back, and `close = owner` removes it
commit(key, out, mutable, close) ==
    IF out.err # "Ok" \/ ~mutable THEN accounts
    ELSE IF close THEN [k \in DOMAIN accounts \ {key} |-> accounts[k]]
    ELSE [k \in DOMAIN accounts \cup {key} |->
             IF k = key THEN out.switch ELSE accounts[k]]

\* events reach the log only when the instruction succeeds
emitted(out) == IF out.err = "Ok" THEN out.event ELSE None

\* the record of a processed instruction: `before` is the accounts as they
\* were when it started
Result(op, signer, key, args, out) ==
    [op |-> op, signer |-> signer, key |-> key, args |-> args,
     before |-> accounts, err |-> out.err, ret |-> out.ret,
     event |-> emitted(out)]

NoCall ==
    [op |-> "none", signer |-> NoPrincipal, key |-> <<NoPrincipal, 0>>,
     args |-> None, before |-> accounts, err |-> "Ok", ret |-> None,
     event |-> None]

Init ==
    /\ accounts = << >>
    /\ now \in Times
    /\ result = NoCall

\* the cluster clock moves forward
Tick ==
    /\ \E t \in Times : t > now /\ now' = t
    /\ result' = NoCall
    /\ UNCHANGED accounts

\* `init` allocates the account before the handler runs, so the arguments reach
\* the handler only when the address is free.  A new account is allocated only
\* while fewer than `capacity` accounts are live.
create_step(signer, args, capacity) ==
    LET id == args[1]
        key == <<signer, id>>
        account == load(key)
        check == CreateSwitch(account, signer)
        out == IF check # "Ok" THEN Err(check, ZeroSwitch)
               ELSE create_switch(ZeroSwitch, key, signer, id, args[2], args[3], now)
    IN  /\ (out.err = "Ok" /\ key \notin DOMAIN accounts)
              => Cardinality(DOMAIN accounts) < capacity
        /\ accounts' = commit(key, out, TRUE, FALSE)
        /\ result' = Result("create_switch", signer, key,
                            IF check = "Ok" THEN Some(args) ELSE None, out)
        /\ UNCHANGED now

Call_create_switch(signer, args) == create_step(signer, args, MaxLive)

Call_ping(signer, key) ==
    LET account == load(key)
        check == Ping(account, signer)
        out == IF check # "Ok" THEN Err(check, ZeroSwitch)
               ELSE ping(Unwrap(account), key, now)
    IN  /\ accounts' = commit(key, out, TRUE, FALSE)
        /\ result' = Result("ping", signer, key, None, out)
        /\ UNCHANGED now

Call_check_expiration(signer, key) ==
    LET account == load(key)
        check == CheckExpiration(account, signer)
        out == IF check # "Ok" THEN Err(check, ZeroSwitch)
               ELSE check_expiration(Unwrap(account), now)
    IN  /\ accounts' = commit(key, out, FALSE, FALSE)
        /\ result' = Result("check_expiration", signer, key, None, out)
        /\ UNCHANGED now

Call_get_switch_info(signer, key) ==
    LET account == load(key)
        check == GetSwitchInfo(account, signer)
        out == IF check # "Ok" THEN Err(check, ZeroSwitch)
               ELSE get_switch_info(Unwrap(account), now)
    IN  /\ accounts' = commit(key, out, FALSE, FALSE)
        /\ result' = Result("get_switch_info", signer, key, None, out)
        /\ UNCHANGED now

Call_deactivate_switch(signer, key) ==
    LET account == load(key)
        check == DeactivateSwitch(account, signer)
        out == IF check # "Ok" THEN Err(check, ZeroSwitch)
               ELSE deactivate_switch(Unwrap(account), key, now)
    IN  /\ accounts' = commit(key, out, TRUE, FALSE)
        /\ result' = Result("deactivate_switch", signer, key, None, out)
        /\ UNCHANGED now

Call_close_switch(signer, key) ==
    LET account == load(key)
        check == CloseSwitch(account, signer)
        out == IF check # "Ok" THEN Err(check, ZeroSwitch)
               ELSE close_switch(Unwrap(account), key, signer, now)
    IN  /\ accounts' = commit(key, out, TRUE, TRUE)
        /\ result' = Result("close_switch", signer, key, None, out)
        /\ UNCHANGED now

Next ==
    \/ Tick
    \/ \E signer \in Principals, args \in CreateArgs :
          Call_create_switch(signer, args)
    \/ \E signer \in Principals, key \in Keys : Call_ping(signer, key)
    \/ \E signer \in Principals, key \in Keys : Call_check_expiration(signer, key)
    \/ \E signer \in Principals, key \in Keys : Call_get_switch_info(signer, key)
    \/ \E signer \in Principals, key \in Keys : Call_deactivate_switch(signer, key)
    \/ \E signer \in Principals, key \in Keys : Call_close_switch(signer, key)

Spec == Init /\ [][Next]_vars

(***************************************************************************)
(* The same program with room for one more live account, so that two       *)
(* owners hold a switch at the same time.                                  *)
(***************************************************************************)
Call_create_switch_beside(signer, args) == create_step(signer, args, MaxLive + 1)

NextRegistry ==
    \/ Tick
    \/ \E signer \in Principals, args \in CreateArgs :
          Call_create_switch_beside(signer, args)
    \/ \E signer \in Principals, key \in Keys : Call_ping(signer, key)
    \/ \E signer \in Principals, key \in Keys : Call_check_expiration(signer, key)
    \/ \E signer \in Principals, key \in Keys : Call_get_switch_info(signer, key)
    \/ \E signer \in Principals, key \in Keys : Call_deactivate_switch(signer, key)
    \/ \E signer \in Principals, key \in Keys : Call_close_switch(signer, key)

SpecRegistry == Init /\ [][NextRegistry]_vars

(***************************************************************************)
(* The queries over every value of the account type.  is_expired and       *)
(* get_switch_info take whatever DeadManSwitch is stored at the address,   *)
(* and their overflow branches are taken only for a record whose last_ping *)
(* + ping_interval is beyond i64: the stored record is drawn from both     *)
(* sides of that limit, with either value of active.                       *)
(***************************************************************************)
StoredSwitches ==
    { [owner |-> o, last_ping |-> t, ping_interval |-> i,
       encrypted_data |-> copy_from_slice(Data1), data_length |-> ByteLen(Data1),
       created_at |-> 0, active |-> a] :
         o \in Principals, t \in Times,
         i \in {MIN_PING_INTERVAL, MAX_PING_INTERVAL}, a \in BOOLEAN }

InitQuery ==
    /\ now \in Times
    /\ \E key \in Keys, switch \in StoredSwitches :
          /\ switch.owner = key[1]
          /\ accounts = [k \in {key} |-> switch]
    /\ result = NoCall

NextQuery ==
    \/ Tick
    \/ \E signer \in Principals, key \in Keys : Call_check_expiration(signer, key)
    \/ \E signer \in Principals, key \in Keys : Call_get_switch_info(signer, key)

SpecQuery == InitQuery /\ [][NextQuery]_vars

(***************************************************************************)
(* Vocabulary of the properties                                            *)
(***************************************************************************)
\* the last step was the instruction `op`, on an account that existed
CalledOn(op) == result.op = op /\ result.key \in DOMAIN result.before

\* the target account before the instruction
Before == result.before[result.key]

\* the target account is still stored, exactly as it was
Untouched ==
    /\ result.key \in DOMAIN accounts
    /\ accounts[result.key] = Before

\* the instruction was signed by the target account's owner
ByOwner == result.signer = Before.owner

\* last_ping + ping_interval is a timestamp
Representable(switch) == switch.last_ping <= I64_MAX - switch.ping_interval

\* the deadline, where it is representable
Deadline(switch) == switch.last_ping + switch.ping_interval

Live == DOMAIN accounts

(***************************************************************************)
(* C1.  Closing is reachable: once the owner has disarmed a switch, a      *)
(* close_switch by the owner at any time after last_ping + ping_interval   *)
(* succeeds and removes the account.                                       *)
(* The program refuses: is_expired is false for every inactive switch, so  *)
(* the second require of close_switch fails whenever the first passes.     *)
(***************************************************************************)
C1_CloseAfterDisarmSucceeds ==
    (/\ CalledOn("close_switch")
     /\ ByOwner
     /\ ~Before.active
     /\ Representable(Before)
     /\ now > Deadline(Before))
    => (/\ result.err = "Ok"
        /\ result.key \notin DOMAIN accounts)

(***************************************************************************)
(* C2.  A still-armed switch is never removed: close_switch by the owner   *)
(* of an active switch fails with ActiveSwitch at every time, before and   *)
(* after the deadline, emits nothing and leaves every account as it was.   *)
(***************************************************************************)
C2_ArmedNeverClosed ==
    /\ (CalledOn("close_switch") /\ ByOwner /\ Before.active)
       => (/\ result.err = "ActiveSwitch"
           /\ result.event = None
           /\ Untouched
           /\ accounts = result.before)
    /\ \A k \in Live : \A t \in Times :
          accounts[k].active
          => close_switch(accounts[k], k, accounts[k].owner, t).err = "ActiveSwitch"

C2_Witness ==
    /\ CalledOn("close_switch")
    /\ ByOwner
    /\ Before.active
    /\ now > Deadline(Before)
    /\ result.err = "ActiveSwitch"

(***************************************************************************)
(* C3.  For an active switch whose deadline last_ping + ping_interval is   *)
(* representable, is_expired is false at every time up to and including    *)
(* the deadline and true at every later time; check_expiration returns     *)
(* that value for the current time and changes nothing, so asking again    *)
(* at the same time gives the same answer.                                 *)
(***************************************************************************)
C3_ExpiredIffPastDeadline ==
    /\ \A k \in Live : \A t \in Times :
          (accounts[k].active /\ Representable(accounts[k]))
          => (is_expired(accounts[k], t) <=> t > Deadline(accounts[k]))
    /\ (CalledOn("check_expiration") /\ Before.active /\ Representable(Before))
       => (/\ result.err = "Ok"
           /\ result.ret = Some(now > Deadline(Before))
           /\ accounts = result.before
           /\ check_expiration(accounts[result.key], now).ret = result.ret)

C3_Witness ==
    /\ CalledOn("check_expiration")
    /\ Before.active
    /\ now - 1 = Deadline(Before)
    /\ result.ret = Some(TRUE)

(***************************************************************************)
(* C4.  Pinging defers expiration.  A successful create_switch or ping at  *)
(* time t makes t the reference time of the switch; nothing else moves     *)
(* it.  While the switch stays active, check_expiration returns false as   *)
(* long as no more than ping_interval has elapsed since the reference      *)
(* time, and true at every time after that.                                *)
(***************************************************************************)
C4_PingDefersExpiration ==
    /\ (result.op \in {"create_switch", "ping"} /\ result.err = "Ok")
       => (/\ result.key \in Live
           /\ accounts[result.key].active
           /\ accounts[result.key].last_ping = now
           /\ \A t \in Times :
                 (t >= now /\ t - now <= accounts[result.key].ping_interval)
                 => ~is_expired(accounts[result.key], t))
    /\ \A k \in DOMAIN result.before :
          (k \in Live /\ ~(result.op = "ping" /\ result.err = "Ok" /\ result.key = k))
          => accounts[k].last_ping = result.before[k].last_ping
    /\ (CalledOn("check_expiration") /\ Before.active)
       => result.ret = Some(now - Before.last_ping > Before.ping_interval)

C4_Witness ==
    /\ CalledOn("check_expiration")
    /\ Before.active
    /\ now > Before.created_at + Before.ping_interval
    /\ Before.last_ping > Before.created_at
    /\ result.ret = Some(FALSE)

(***************************************************************************)
(* C5.  A ping by the owner of an active switch at a time later than the   *)
(* stored last_ping, with now + ping_interval representable, stores        *)
(* last_ping = now and reports now + ping_interval in SwitchPinged; at a   *)
(* time not later than last_ping it fails with InvalidTimestamp and the    *)
(* account is unchanged.  So last_ping grows with every successful ping.   *)
(***************************************************************************)
C5_PingAdvancesLastPing ==
    /\ (CalledOn("ping") /\ ByOwner /\ Before.active)
       => IF now > Before.last_ping
          THEN now <= I64_MAX - Before.ping_interval
               => (/\ result.err = "Ok"
                   /\ result.key \in Live
                   /\ accounts[result.key] = [Before EXCEPT !.last_ping = now]
                   /\ result.event =
                         Some([name |-> "SwitchPinged", owner |-> Before.owner,
                               switch_key |-> result.key,
                               next_required_ping |-> now + Before.ping_interval,
                               timestamp |-> now]))
          ELSE (/\ result.err = "InvalidTimestamp"
                /\ result.event = None
                /\ Untouched)
    /\ (CalledOn("ping") /\ result.err = "Ok")
       => accounts[result.key].last_ping > Before.last_ping
    /\ \A k \in Live : \A t \in Times :
          (accounts[k].active /\ t <= accounts[k].last_ping)
          => ping(accounts[k], k, t).err = "InvalidTimestamp"

C5_Witness ==
    /\ CalledOn("ping")
    /\ result.err = "Ok"
    /\ now > Before.last_ping
    /\ accounts[result.key].last_ping = now
    /\ Unwrap(result.event).next_required_ping = now + Before.ping_interval

(***************************************************************************)
(* C6.  As claimed: a ping by the owner of an active switch after its      *)
(* deadline is rejected with a state error Expired and last_ping keeps     *)
(* its value.                                                              *)
(***************************************************************************)
C6_LatePingRejected ==
    (/\ CalledOn("ping")
     /\ ByOwner
     /\ Before.active
     /\ now > Deadline(Before))
    => (/\ result.err = "Expired"
        /\ Untouched)

(***************************************************************************)
(* C6, as the program has it.  ping does not look at the deadline: a ping  *)
(* by the owner of an active switch after its deadline is accepted when    *)
(* now + ping_interval is representable, stores last_ping = now and        *)
(* leaves the switch not expired at that time; when now + ping_interval    *)
(* overflows it fails with TimeOverflow and last_ping keeps its value.     *)
(* No instruction fails with an error Expired.                             *)
(***************************************************************************)
C6_LatePingRevives ==
    /\ (/\ CalledOn("ping")
        /\ ByOwner
        /\ Before.active
        /\ now > Deadline(Before))
       => IF now <= I64_MAX - Before.ping_interval
          THEN /\ result.err = "Ok"
               /\ is_expired(Before, now)
               /\ accounts[result.key].last_ping = now
               /\ ~is_expired(accounts[result.key], now)
          ELSE /\ result.err = "TimeOverflow"
               /\ Untouched
    /\ result.err # "Expired"

C6_Witness ==
    /\ CalledOn("ping")
    /\ ByOwner
    /\ Before.active
    /\ now > Deadline(Before)
    /\ result.err = "Ok"
    /\ accounts[result.key].last_ping = now

(***************************************************************************)
(* C7.  Once a switch is disarmed is_expired is false at every time, also  *)
(* long after last_ping + ping_interval, and check_expiration says so.     *)
(***************************************************************************)
C7_DisarmedNeverExpires ==
    /\ \A k \in Live : \A t \in Times :
          ~accounts[k].active => ~is_expired(accounts[k], t)
    /\ (CalledOn("check_expiration") /\ ~Before.active)
       => result.ret = Some(FALSE)
    /\ (CalledOn("get_switch_info") /\ ~Before.active)
       => ~Unwrap(result.ret).expired

C7_Witness ==
    /\ CalledOn("check_expiration")
    /\ ~Before.active
    /\ now - MAX_PING_INTERVAL > Deadline(Before)
    /\ result.ret = Some(FALSE)

(***************************************************************************)
(* C8.  As claimed: close_switch by the owner of an active switch whose    *)
(* deadline has not passed fails with NotExpired.                          *)
(***************************************************************************)
C8_EarlyCloseNotExpired ==
    (/\ CalledOn("close_switch")
     /\ ByOwner
     /\ Before.active
     /\ now <= Deadline(Before))
    => result.err = "NotExpired"

(***************************************************************************)
(* C8, as the program has it.  close_switch checks the active flag first:  *)
(* close_switch by the owner of an active switch whose deadline has not    *)
(* passed fails with ActiveSwitch.                                         *)
(***************************************************************************)
C8_EarlyCloseActiveSwitch ==
    (/\ CalledOn("close_switch")
     /\ ByOwner
     /\ Before.active
     /\ now <= Deadline(Before))
    => (/\ result.err = "ActiveSwitch"
        /\ Untouched)

C8_Witness ==
    /\ CalledOn("close_switch")
    /\ ByOwner
    /\ Before.active
    /\ Before.ping_interval = MIN_PING_INTERVAL
    /\ now < Deadline(Before)
    /\ result.err = "ActiveSwitch"

(***************************************************************************)
(* C9.  Whatever the state of a switch (active or not, past its deadline   *)
(* or not), ping, deactivate_switch and close_switch signed by a principal *)
(* other than its owner are rejected, emit nothing, and every account is   *)
(* left stored and unchanged.                                              *)
(***************************************************************************)
OwnerOnly == {"ping", "deactivate_switch", "close_switch"}

C9_NonOwnerRejected ==
    /\ (/\ result.op \in OwnerOnly
        /\ result.key \in DOMAIN result.before
        /\ ~ByOwner)
       => (/\ result.err = "ConstraintHasOne"
           /\ result.event = None
           /\ Untouched
           /\ accounts = result.before)
    /\ \A k \in Live : \A p \in Principals :
          p # accounts[k].owner
          => /\ Ping(Some(accounts[k]), p) # "Ok"
             /\ DeactivateSwitch(Some(accounts[k]), p) # "Ok"
             /\ CloseSwitch(Some(accounts[k]), p) # "Ok"

C9_Witness ==
    /\ CalledOn("deactivate_switch")
    /\ ~ByOwner
    /\ Before.active
    /\ now > Deadline(Before)
    /\ result.err = "ConstraintHasOne"
    /\ accounts[result.key].active

(***************************************************************************)
(* C10.  Disarming is one-way: deactivate_switch by the owner of an active *)
(* switch clears the flag and changes nothing else; on an inactive switch  *)
(* it fails with AlreadyInactive; and no instruction turns the flag of a   *)
(* stored account from false to true.                                      *)
(***************************************************************************)
C10_DisarmOneWay ==
    /\ (CalledOn("deactivate_switch") /\ ByOwner)
       => IF Before.active
          THEN /\ result.err = "Ok"
               /\ result.key \in Live
               /\ accounts[result.key] = [Before EXCEPT !.active = FALSE]
               /\ result.event =
                     Some([name |-> "SwitchDeactivated", switch |-> result.key,
                           timestamp |-> now])
          ELSE /\ result.err = "AlreadyInactive"
               /\ result.event = None
               /\ Untouched
    /\ \A k \in DOMAIN result.before :
          (k \in Live /\ ~result.before[k].active) => ~accounts[k].active

C10_Witness ==
    /\ CalledOn("deactivate_switch")
    /\ ByOwner
    /\ ~Before.active
    /\ result.err = "AlreadyInactive"
    /\ ~accounts[result.key].active

(***************************************************************************)
(* C11.  A ping by the owner of a disarmed switch fails with               *)
(* InactiveSwitch at every time, whether or not the time is later than     *)
(* last_ping; nothing is emitted and last_ping keeps its value.            *)
(***************************************************************************)
C11_PingDisarmedRejected ==
    /\ (CalledOn("ping") /\ ByOwner /\ ~Before.active)
       => (/\ result.err = "InactiveSwitch"
           /\ result.event = None
           /\ Untouched
           /\ accounts[result.key].last_ping = Before.last_ping)
    /\ \A k \in Live : \A t \in Times :
          ~accounts[k].active => ping(accounts[k], k, t).err = "InactiveSwitch"

C11_Witness ==
    /\ CalledOn("ping")
    /\ ByOwner
    /\ ~Before.active
    /\ now > Before.last_ping
    /\ result.err = "InactiveSwitch"
    /\ accounts[result.key].last_ping = Before.last_ping

(***************************************************************************)
(* Vocabulary of the create_switch properties                              *)
(***************************************************************************)
\* the last step was a create_switch on a free address: its arguments
\* reached the handler
Created == result.op = "create_switch" /\ IsSome(result.args)

ArgId == Unwrap(result.args)[1]

ArgInterval == Unwrap(result.args)[2]

ArgData == Unwrap(result.args)[3]

ValidArgs ==
    /\ ArgId > 0
    /\ ArgInterval >= 60 /\ ArgInterval <= 31536000
    /\ ByteLen(ArgData) >= 1 /\ ByteLen(ArgData) <= 512

(***************************************************************************)
(* C12.  create_switch with id > 0, an interval in [60, 31536000] and 1    *)
(* to 512 bytes of data, on a free (owner, id) address at a time now with  *)
(* now + interval representable, succeeds.  The account then has owner =   *)
(* the signer, last_ping = created_at = now, active = true, the given      *)
(* interval and the given data; SwitchCreated carries now + interval, and  *)
(* get_switch_info reports that same expiration_time, created_at +         *)
(* interval, until the first ping.                                         *)
(***************************************************************************)
C12_CreateValid ==
    /\ (Created /\ ValidArgs /\ now <= I64_MAX - ArgInterval)
       => (/\ result.err = "Ok"
           /\ result.key = <<result.signer, ArgId>>
           /\ result.key \in Live
           /\ accounts[result.key].owner = result.signer
           /\ accounts[result.key].last_ping = now
           /\ accounts[result.key].created_at = now
           /\ accounts[result.key].active
           /\ accounts[result.key].ping_interval = ArgInterval
           /\ accounts[result.key].data_length = ByteLen(ArgData)
           /\ get_encrypted_data(accounts[result.key]) = ArgData
           /\ Unwrap(result.event).expiration_time = now + ArgInterval
           /\ Unwrap(result.event).timestamp = now
           /\ Unwrap(get_switch_info(accounts[result.key], now).ret).expiration_time
                 = accounts[result.key].created_at + ArgInterval)
    /\ (CalledOn("get_switch_info") /\ Before.last_ping = Before.created_at)
       => (/\ result.err = "Ok"
           /\ Unwrap(result.ret).expiration_time
                 = Before.created_at + Before.ping_interval)

C12_Witness ==
    /\ CalledOn("get_switch_info")
    /\ Before.ping_interval = MAX_PING_INTERVAL
    /\ Before.last_ping = Before.created_at
    /\ Unwrap(result.ret).expiration_time = Before.created_at + MAX_PING_INTERVAL

(***************************************************************************)
(* C13.  create_switch creates nothing and fails when an argument is out   *)
(* of range: id = 0 with InvalidSwitchId, an interval below 60 or above    *)
(* 31536000 with InvalidInterval, data longer than 512 bytes with          *)
(* DataTooLarge, empty data with EmptyData.  The checks run in that        *)
(* order, so with several faults the first one names the error.            *)
(***************************************************************************)
C13_CreateRejectsInvalid ==
    (Created /\ ~ValidArgs)
    => (/\ result.err =
              IF ArgId = 0 THEN "InvalidSwitchId"
              ELSE IF ArgInterval < 60 \/ ArgInterval > 31536000
                   THEN "InvalidInterval"
              ELSE IF ByteLen(ArgData) > 512 THEN "DataTooLarge"
              ELSE "EmptyData"
        /\ result.event = None
        /\ result.key \notin Live
        /\ accounts = result.before)

C13_Witness ==
    /\ Created
    /\ ArgId > 0
    /\ ArgInterval = MIN_PING_INTERVAL
    /\ ByteLen(ArgData) = MAX_DATA_SIZE + 1
    /\ result.err = "DataTooLarge"
    /\ result.key \notin Live

C15_DeadlineRepresentable ==
    /\ \A k \in Live :
          /\ accounts[k].ping_interval >= 60
          /\ accounts[k].ping_interval <= 31536000
          /\ accounts[k].last_ping <= I64_MAX - accounts[k].ping_interval
    /\ (Created /\ ValidArgs /\ now > I64_MAX - ArgInterval)
       => (/\ result.err = "TimeOverflow"
           /\ result.key \notin Live
           /\ accounts = result.before)
    /\ (/\ CalledOn("ping")
        /\ ByOwner
        /\ Before.active
        /\ now > Before.last_ping
        /\ now > I64_MAX - Before.ping_interval)
       => (/\ result.err = "TimeOverflow"
           /\ Untouched)

C15_Witness ==
    /\ CalledOn("ping")
    /\ ByOwner
    /\ Before.active
    /\ now > Before.last_ping
    /\ now > I64_MAX - Before.ping_interval
    /\ result.err = "TimeOverflow"
    /\ accounts[result.key].last_ping <= I64_MAX - accounts[result.key].ping_interval

Queries == {"check_expiration", "get_switch_info"}

C17_FrameOfLiveAccount ==
    /\ \A k \in Live \cap DOMAIN result.before :
          LET old == result.before[k]
              new == accounts[k]
          IN  /\ new.owner = old.owner
              /\ new.ping_interval = old.ping_interval
              /\ new.created_at = old.created_at
              /\ new.encrypted_data = old.encrypted_data
              /\ new.data_length = old.data_length
              /\ new.last_ping # old.last_ping
                 => (result.op = "ping" /\ result.key = k /\ result.err = "Ok")
              /\ new.active # old.active
                 => (/\ result.op = "deactivate_switch"
                     /\ result.key = k
                     /\ result.err = "Ok")
    /\ (result.op \in Queries /\ result.key \in DOMAIN result.before)
       => (/\ result.err = "Ok"
           /\ accounts = result.before)

C17_Witness ==
    /\ CalledOn("get_switch_info")
    /\ ~ByOwner
    /\ result.err = "Ok"
    /\ Before.last_ping > Before.created_at
    /\ ~Before.active
    /\ Untouched

(***************************************************************************)
(* C20.  deactivate_switch has no expiry precondition: the owner's         *)
(* deactivate_switch of an active account succeeds also when the deadline  *)
(* has passed, and from then on is_expired, and so check_expiration, is    *)
(* false at that and every later time.                                     *)
(***************************************************************************)
C20_DisarmAfterExpiry ==
    /\ (CalledOn("deactivate_switch") /\ ByOwner /\ Before.active)
       => (/\ result.err = "Ok"
           /\ result.key \in Live
           /\ \A t \in Times :
                 t >= now => ~is_expired(accounts[result.key], t))
    /\ (/\ CalledOn("check_expiration")
        /\ ~Before.active)
       => result.ret = Some(FALSE)

C20_Witness ==
    /\ CalledOn("deactivate_switch")
    /\ ByOwner
    /\ is_expired(Before, now)
    /\ check_expiration(Before, now).ret = Some(TRUE)
    /\ result.err = "Ok"
    /\ check_expiration(accounts[result.key], now).ret = Some(FALSE)


C19_InfoSaturates ==
    CalledOn("get_switch_info")
    => (/\ result.err = "Ok"
        /\ IsSome(result.ret)
        /\ LET info == Unwrap(result.ret)
           IN  /\ info.expiration_time =
                     IF Representable(Before) THEN Deadline(Before) ELSE I64_MAX
               /\ info.expired = is_expired(Before, now)
               /\ info.owner = Before.owner
               /\ info.last_ping = Before.last_ping
               /\ info.ping_interval = Before.ping_interval
               /\ info.created_at = Before.created_at
               /\ info.current_time = now
        /\ Untouched)

C19_Witness ==
    /\ CalledOn("get_switch_info")
    /\ ~Representable(Before)
    /\ Before.active
    /\ result.err = "Ok"
    /\ Unwrap(result.ret).expiration_time = I64_MAX
    /\ Unwrap(result.ret).expired = FALSE

====
